---- MODULE Spec2Model ----
(***************************************************************************)
(* A model of echo-opt: the objective adapter's results ledger             *)
(* (echo/src/base_objective.py), the wall-time loop of echo/run.py and the *)
(* recursive configuration update used by BaseObjective.update_config.     *)
(***************************************************************************)
EXTENDS Integers, Sequences, FiniteSets, TLC

(***************************************************************************)
(* Bounds of the model.                                                    *)
(***************************************************************************)
\* number of save calls in one behaviour
MaxSaves == 2
\* trial numbers handed out by the study are 1..MaxTrial
MaxTrial == 2
\* the largest wall-time limit (in seconds) of a job
MaxWall == 6
\* a trial takes 1..MaxDur seconds
MaxDur == 3
\* the wall-time loop is followed until MaxClock seconds after the start
MaxClock == 8
\* the largest number of successful trials a configuration asks for
MaxRequired == 3
\* a parameter path has 1..MaxPathLen segments
MaxPathLen == 3
\* number of path updates of one configuration tree
MaxUpdates == 2

(***************************************************************************)
(* Values.  Column order of a frame is not modelled (columns are a set);   *)
(* cell values are integers, which the CSV writer prints and the CSV       *)
(* reader parses back to the same integer.                                 *)
(***************************************************************************)
Workers == {"w1", "w2"}
NoNode == "None"
\* job identifiers given on the command line; a scheduler gives every job its own
JobIdOf == [w \in Workers |-> IF w = "w1" THEN "101" ELSE "102"]
TrialNumbers == 1..MaxTrial
ParamValues == {0, 1}
PruneValues == {FALSE, TRUE}
\* the training routine's possible results_dict values
ResultsDicts ==
  { <<>> }
  \cup { [k \in {"m1"} |-> v] : v \in {1, 2} }
  \cup { [k \in {"m1", "m2"} |-> IF k = "m1" THEN v ELSE 3] : v \in {1, 2} }
\* the study metric: one string, or a list of strings (multi-objective)
Metrics ==
  { [single |-> TRUE, names |-> <<"m1">>],
    [single |-> FALSE, names |-> <<"m1", "m2">>],
    [single |-> FALSE, names |-> <<"m2", "m1">>] }
Trials == [number : TrialNumbers, x : ParamValues, prune : PruneValues]

\* Python values returned by save: a number, or a list
PyNum(v) == [t |-> "num", v |-> v, items |-> <<>>]
PyList(s) == [t |-> "list", v |-> 0, items |-> s]
PyNone == [t |-> "none", v |-> 0, items |-> <<>>]

Range(s) == { s[i] : i \in DOMAIN s }

VARIABLES
  metric,     \* self.metric
  nodeId,     \* nodeId[w]: self.worker_index of worker w
  results,    \* results[w]: self.results of worker w (defaultdict(list))
  pending,    \* pending[w]: the frame df of a save of w that has not reached to_csv
  files,      \* the results directory: file name -> CSV file
  call,       \* the last call of save: its worker, trial and results_dict
  outcome,    \* how that call ended, and what it returned
  saves,      \* number of save calls so far
  pc,         \* main of run.py: "call" (at the while), "check" (after optimize), "done"
  now,        \* time.time() - start_the_clock
  wallLimit,  \* wall_time_secs
  nTrials,    \* model_config["optuna"]["n_trials"]
  study,      \* the trials of the study, as trials_dataframe() lists them
  estimate,   \* estimated_run_time
  request,    \* the last study.optimize call: its n_trials, timeout, and the clock
  lastCheck,  \* the last pass through the early-stopping block
  stop,       \* why the loop ended
  uncaught,   \* an exception left the loop
  tree,       \* conf: the configuration tree
  updates,    \* number of path updates applied to it
  lastUpdate, \* the path and the value of the last update
  flat,       \* the (path, value) pairs the last flattening gave
  flatAt      \* the number of updates the flattened tree had seen

ledgerVars == <<metric, nodeId, results, pending, files, call, outcome, saves>>
loopVars == <<pc, now, wallLimit, nTrials, study, estimate, request, lastCheck,
              stop, uncaught>>
cfgVars == <<tree, updates, lastUpdate, flat, flatAt>>
vars == <<ledgerVars, loopVars, cfgVars>>

(***************************************************************************)
(* BaseObjective.set_properties                                            *)
(***************************************************************************)
\* self.results = defaultdict(list): no key yet
EmptyResults == <<>>

ResultsFn(node) ==
  IF node # NoNode THEN "results_" \o node \o ".csv" ELSE "results.csv"

(***************************************************************************)
(* pandas: DataFrame.from_dict, read_csv, concat, reset_index,             *)
(* drop_duplicates, sort_values, to_csv, as save uses them.                *)
(* A frame is [cols, rows]; a row is [index, cells].                       *)
(***************************************************************************)
IndexCol == "Unnamed: 0"
ListCols(res) == DOMAIN res \ {"pruned"}
Lengths(res) == { Len(res[c]) : c \in ListCols(res) }

\* from_dict raises ValueError unless all list columns have one length
FromDictOk(res) == Cardinality(Lengths(res)) = 1

FromDict(res) ==
  LET n == CHOOSE k \in Lengths(res) : TRUE
  IN [cols |-> DOMAIN res,
      rows |-> [i \in 1..n |->
                 [index |-> i - 1,
                  cells |-> [c \in DOMAIN res |->
                              IF c = "pruned" THEN res[c] ELSE res[c][i]]]]]

\* to_csv writes the index as a first, unnamed column
ToCsv(df) ==
  [header |-> df.cols \cup {IndexCol},
   lines |-> [i \in 1..Len(df.rows) |->
               [c \in df.cols \cup {IndexCol} |->
                 IF c = IndexCol THEN df.rows[i].index ELSE df.rows[i].cells[c]]]]

\* read_csv(usecols=...) raises ValueError when a wanted column is not in the file
ReadCsvOk(file, usecols) == usecols \subseteq file.header

ReadCsv(file, usecols) ==
  [cols |-> usecols,
   rows |-> [i \in 1..Len(file.lines) |->
              [index |-> i - 1,
               cells |-> [c \in usecols |-> file.lines[i][c]]]]]

Concat(a, b) == [cols |-> a.cols, rows |-> a.rows \o b.rows]

ResetIndex(df) ==
  [cols |-> df.cols,
   rows |-> [i \in 1..Len(df.rows) |->
              [index |-> i - 1, cells |-> df.rows[i].cells]]]

TrialOf(row) == row.cells["trial"]

\* drop_duplicates(["trial"]): the first row of each trial number is kept
DropDuplicates(df) ==
  LET rows == df.rows
      first(i) == \A j \in 1..(i - 1) : TrialOf(rows[j]) # TrialOf(rows[i])
      F[k \in 0..Len(rows)] ==
        IF k = 0 THEN <<>>
        ELSE IF first(k) THEN Append(F[k - 1], rows[k]) ELSE F[k - 1]
  IN [cols |-> df.cols, rows |-> F[Len(rows)]]

\* r put into the sorted sequence s, after the rows that do not exceed it
InsertSorted(s, r) ==
  LET n == Cardinality({ i \in 1..Len(s) : TrialOf(s[i]) <= TrialOf(r) })
  IN SubSeq(s, 1, n) \o <<r>> \o SubSeq(s, n + 1, Len(s))

\* sort_values(["trial"]): ascending
SortValues(df) ==
  LET rows == df.rows
      F[k \in 0..Len(rows)] ==
        IF k = 0 THEN <<>> ELSE InsertSorted(F[k - 1], rows[k])
  IN [cols |-> df.cols, rows |-> F[Len(rows)]]

(***************************************************************************)
(* BaseObjective.save                                                      *)
(***************************************************************************)
\* the asserts: a metric the study requires is not a key of results_dict
MetricMissing(m, rd) ==
  IF m.single
  THEN m.names[1] \notin DOMAIN rd
  ELSE \E i \in 1..Len(m.names) : m.names[i] \notin DOMAIN rd

\* self.results[key].append(value) on a defaultdict(list)
AppendTo(res, key, value) ==
  [c \in DOMAIN res \cup {key} |->
    IF c = key
    THEN Append(IF c \in DOMAIN res THEN res[c] ELSE <<>>, value)
    ELSE res[c]]

\* the trial number, every suggested parameter and every returned metric
AppendTrial(res, trial, rd) ==
  LET r1 == AppendTo(res, "trial", trial.number)
      r2 == AppendTo(r1, "x", trial.x)
  IN [c \in DOMAIN r2 \cup DOMAIN rd |->
       IF c \in DOMAIN rd
       THEN Append(IF c \in DOMAIN r2 THEN r2[c] ELSE <<>>, rd[c])
       ELSE r2[c]]

\* self.results["pruned"] = int(trial.should_prune()): one number, not a list
SetPruned(res, trial) ==
  [c \in DOMAIN res \cup {"pruned"} |->
    IF c = "pruned" THEN (IF trial.prune THEN 1 ELSE 0) ELSE res[c]]

\* the frame built from memory, with the rows of the file on disk after it
MergeWithDisk(df, fs, fn) ==
  IF fn \in DOMAIN fs
  THEN ResetIndex(Concat(df, ReadCsv(fs[fn], df.cols)))
  ELSE df

\* the ledger without the sort
LedgerUnsorted(df) == DropDuplicates(df)

\* duplicates dropped, then sorted by trial number
Ledger(df) == SortValues(DropDuplicates(df))

\* self.results[key] read on a defaultdict(list)
Get(res, key) == IF key \in DOMAIN res THEN res[key] ELSE <<>>

\* a Python list of numbers
NumList(s) == PyList([j \in 1..Len(s) |-> PyNum(s[j])])

\* what save returns: results_dict[self.metric], or
\* [self.results[metric] for metric in self.metric]
ReturnValue(m, res, rd) ==
  IF m.single
  THEN PyNum(rd[m.names[1]])
  ELSE PyList([i \in 1..Len(m.names) |-> NumList(Get(res, m.names[i]))])

\* save with the asserts placed after the rows are recorded
PrepareRecordFirst(res, fs, fn, m, trial, rd) ==
  LET r == SetPruned(AppendTrial(res, trial, rd), trial)
  IN IF MetricMissing(m, rd)
     THEN [results |-> r, kind |-> "AssertionError", df |-> <<>>, ret |-> PyNone]
     ELSE IF ~FromDictOk(r)
     THEN [results |-> r, kind |-> "ValueError", df |-> <<>>, ret |-> PyNone]
     ELSE IF fn \in DOMAIN fs /\ ~ReadCsvOk(fs[fn], DOMAIN r)
     THEN [results |-> r, kind |-> "ValueError", df |-> <<>>, ret |-> PyNone]
     ELSE [results |-> r, kind |-> "ok",
           df |-> Ledger(MergeWithDisk(FromDict(r), fs, fn)),
           ret |-> ReturnValue(m, r, rd)]

\* save up to (not including) to_csv: the new self.results, how far the call
\* got, the frame to be written and the value to be returned
Prepare(res, fs, fn, m, trial, rd) ==
  IF MetricMissing(m, rd)
  THEN [results |-> res, kind |-> "AssertionError", df |-> <<>>, ret |-> PyNone]
  ELSE
    LET r == SetPruned(AppendTrial(res, trial, rd), trial)
    IN IF ~FromDictOk(r)
       THEN [results |-> r, kind |-> "ValueError", df |-> <<>>, ret |-> PyNone]
       ELSE IF fn \in DOMAIN fs /\ ~ReadCsvOk(fs[fn], DOMAIN r)
       THEN [results |-> r, kind |-> "ValueError", df |-> <<>>, ret |-> PyNone]
       ELSE [results |-> r, kind |-> "ok",
             df |-> Ledger(MergeWithDisk(FromDict(r), fs, fn)),
             ret |-> ReturnValue(m, r, rd)]

\* df.to_csv(self.results_fn): the file is overwritten
WriteFile(fs, fn, df) ==
  [f \in DOMAIN fs \cup {fn} |-> IF f = fn THEN ToCsv(df) ELSE fs[f]]

NoCall == [worker |-> "none", trial |-> <<>>, rd |-> <<>>]
NoPending == [busy |-> FALSE, df |-> <<>>, ret |-> PyNone]
NoOutcome == [kind |-> "none", ret |-> PyNone]

(***************************************************************************)
(* echo.src.config: recursive_update and recursive_config_reader, as the   *)
(* specification describes them (section 4.1).  A node of the tree is a    *)
(* mapping from keys to nodes, or a leaf holding a value.  The reader      *)
(* visits the keys of a mapping in the order of KeyOrder.                  *)
(***************************************************************************)
KeyOrder == <<"a", "b">>
Keys == Range(KeyOrder)
\* the values trial_suggest_loader hands to the update
ConfigValues == {0, 1}
Paths == UNION { [1..n -> Keys] : n \in 1..MaxPathLen }

Map(kv) == [kind |-> "map", kv |-> kv, v |-> 0]
Leaf(v) == [kind |-> "leaf", kv |-> <<>>, v |-> v]
EmptyTree == Map(<<>>)
NoUpdate == [path |-> <<>>, value |-> 0]

\* tree[key] = node
Put(kv, key, node) ==
  [k \in DOMAIN kv \cup {key} |-> IF k = key THEN node ELSE kv[k]]

\* the update that sets the last segment at the root, without nesting
RecursiveUpdateFlat(path, node, value) ==
  Map(Put(node.kv, path[Len(path)], Leaf(value)))

RECURSIVE RecursiveUpdate(_, _, _)
\* update(path, tree, value): the last segment is set; a segment before it that
\* is absent or no mapping is replaced by an empty mapping and descended into
RecursiveUpdate(path, node, value) ==
  IF Len(path) = 1
  THEN Map(Put(node.kv, path[1], Leaf(value)))
  ELSE LET k == path[1]
           child == IF k \in DOMAIN node.kv /\ node.kv[k].kind = "map"
                    THEN node.kv[k] ELSE EmptyTree
       IN Map(Put(node.kv, k, RecursiveUpdate(Tail(path), child, value)))

RECURSIVE RecursiveConfigReader(_, _)
\* flatten(tree): one (path, value) pair for every leaf, path from the root
RecursiveConfigReader(node, path) ==
  LET F[i \in 0..Len(KeyOrder)] ==
        IF i = 0 THEN <<>>
        ELSE LET k == KeyOrder[i]
             IN IF k \notin DOMAIN node.kv THEN F[i - 1]
                ELSE IF node.kv[k].kind = "map"
                THEN F[i - 1] \o RecursiveConfigReader(node.kv[k], Append(path, k))
                ELSE Append(F[i - 1], [path |-> Append(path, k), value |-> node.kv[k].v])
  IN F[Len(KeyOrder)]

(***************************************************************************)
(* run.py: the numbers of the wall-time loop.  Times are whole seconds.    *)
(* estimated_run_time is a float: a fraction num/den, or the mean plus two *)
(* standard deviations of a list of run times, or NaN.  The run times of   *)
(* trials are kept in seconds; the code divides each by 3600.             *)
(***************************************************************************)
SecPerHour == 3600
Num(n, d) == [t |-> "num", num |-> n, den |-> d, durs |-> <<>>]
NaN == [t |-> "nan", num |-> 0, den |-> 1, durs |-> <<>>]
\* run_times.mean() + 2 * run_times.std(), run_times the durations in hours
MeanPlus2Std(durs) == [t |-> "stat", num |-> 0, den |-> 1, durs |-> durs]

Sum(s) ==
  LET F[k \in 0..Len(s)] == IF k = 0 THEN 0 ELSE F[k - 1] + s[k]
  IN F[Len(s)]
SumSq(s) ==
  LET F[k \in 0..Len(s)] == IF k = 0 THEN 0 ELSE F[k - 1] + s[k] * s[k]
  IN F[Len(s)]

\* x < mean(durs) + 2 * std(durs), std the sample standard deviation (n - 1),
\* for Len(durs) >= 2.  With n = Len(durs), S the sum, Q the sum of squares,
\* a = n*x - S and v = n*Q - S^2:  x - S/n < 2*sqrt(v / (n*(n-1)))  iff
\* a < 0 or a^2 * (n-1) < 4*n*v; a > 4*n*v refutes the latter without squaring.
LtMeanPlus2Std(x, durs) ==
  LET n == Len(durs)
      a == n * x - Sum(durs)
      v == n * SumSq(durs) - Sum(durs) * Sum(durs)
  IN \/ a < 0
     \/ /\ a <= 4 * n * v
        /\ a * a * (n - 1) < 4 * n * v

\* time_left < estimated_run_time, as floats compare (nothing is below NaN)
Less(timeLeft, est) ==
  CASE est.t = "nan" -> FALSE
    [] est.t = "num" -> timeLeft * est.den < est.num
    [] est.t = "stat" -> LtMeanPlus2Std(timeLeft * SecPerHour, est.durs)

\* a timeout that has already expired when optimize looks at it
Expired(timeout) == timeout.t = "num" /\ timeout.num <= 0

NoRequest == [n |-> 0, n_trials |-> 0, timeout |-> NaN, remaining |-> 0]
NoCheck == [n |-> 0, rows |-> 0, durs |-> <<>>, timeLeft |-> 0]

\* the loop is not running
LoopIdle ==
  /\ pc = "idle"
  /\ now = 0
  /\ wallLimit = 0
  /\ nTrials = 0
  /\ study = <<>>
  /\ estimate = NaN
  /\ request = NoRequest
  /\ lastCheck = NoCheck
  /\ stop = "none"
  /\ uncaught = FALSE

\* no configuration is being updated
CfgIdle ==
  /\ tree = EmptyTree
  /\ updates = 0
  /\ lastUpdate = NoUpdate
  /\ flat = <<>>
  /\ flatAt = -1

(***************************************************************************)
(* One worker process: its saves, and its restarts.                        *)
(***************************************************************************)
Init ==
  /\ metric \in Metrics
  /\ nodeId \in [Workers -> {NoNode}]
  /\ results = [w \in Workers |-> EmptyResults]
  /\ pending = [w \in Workers |-> NoPending]
  /\ files = <<>>
  /\ call = NoCall
  /\ outcome = NoOutcome
  /\ saves = 0
  /\ LoopIdle
  /\ CfgIdle

\* the whole of save, by worker w
Save(w, trial, rd) ==
  LET p == Prepare(results[w], files, ResultsFn(nodeId[w]), metric, trial, rd)
  IN /\ saves < MaxSaves
     /\ saves' = saves + 1
     /\ call' = [worker |-> w, trial |-> trial, rd |-> rd]
     /\ results' = [results EXCEPT ![w] = p.results]
     /\ files' = IF p.kind = "ok"
                 THEN WriteFile(files, ResultsFn(nodeId[w]), p.df)
                 ELSE files
     /\ outcome' = [kind |-> p.kind, ret |-> p.ret]
     /\ UNCHANGED <<metric, nodeId, pending, loopVars, cfgVars>>

\* a new process of the same worker (a resubmitted job) calls set_properties:
\* the memory is fresh, the file stays
SetProperties(w) ==
  /\ results[w] # EmptyResults
  /\ results' = [results EXCEPT ![w] = EmptyResults]
  /\ call' = NoCall
  /\ outcome' = NoOutcome
  /\ UNCHANGED <<metric, nodeId, pending, files, saves, loopVars, cfgVars>>

SaveStep == \E trial \in Trials, rd \in ResultsDicts : Save("w1", trial, rd)
RestartStep == SetProperties("w1")

Next == SaveStep \/ RestartStep

Spec == Init /\ [][Next]_vars

(***************************************************************************)
(* Worker processes running at once against one save path.  Each is its    *)
(* own process: between the read of the file (os.path.isfile, read_csv)    *)
(* and its overwrite (to_csv) of one worker, another worker may run.  The  *)
(* study hands out every trial number once.                                *)
(***************************************************************************)
InitWorkers ==
  /\ metric = [single |-> TRUE, names |-> <<"m1">>]
  /\ nodeId \in { n \in [Workers -> {NoNode} \cup Range(JobIdOf)] :
                    \A w \in Workers : n[w] \in {NoNode, JobIdOf[w]} }
  /\ results = [w \in Workers |-> EmptyResults]
  /\ pending = [w \in Workers |-> NoPending]
  /\ files = <<>>
  /\ call = NoCall
  /\ outcome = NoOutcome
  /\ saves = 0
  /\ LoopIdle
  /\ CfgIdle

\* save from its first line to the frame that is ready to be written
SaveRead(w, trial, rd) ==
  LET p == Prepare(results[w], files, ResultsFn(nodeId[w]), metric, trial, rd)
  IN /\ saves < MaxSaves
     /\ ~pending[w].busy
     /\ trial.number = saves + 1
     /\ saves' = saves + 1
     /\ call' = [worker |-> w, trial |-> trial, rd |-> rd]
     /\ results' = [results EXCEPT ![w] = p.results]
     /\ pending' = [pending EXCEPT ![w] =
                      IF p.kind = "ok"
                      THEN [busy |-> TRUE, df |-> p.df, ret |-> p.ret]
                      ELSE NoPending]
     /\ outcome' = IF p.kind = "ok" THEN NoOutcome
                   ELSE [kind |-> p.kind, ret |-> p.ret]
     /\ UNCHANGED <<metric, nodeId, files, loopVars, cfgVars>>

\* df.to_csv(self.results_fn), and the return
SaveWrite(w) ==
  /\ pending[w].busy
  /\ files' = WriteFile(files, ResultsFn(nodeId[w]), pending[w].df)
  /\ pending' = [pending EXCEPT ![w] = NoPending]
  /\ outcome' = [kind |-> "ok", ret |-> pending[w].ret]
  /\ UNCHANGED <<metric, nodeId, results, call, saves, loopVars, cfgVars>>

SaveReadStep ==
  \E w \in Workers, trial \in [number : 1..MaxSaves, x : ParamValues, prune : PruneValues],
     rd \in ResultsDicts : SaveRead(w, trial, rd)
SaveWriteStep == \E w \in Workers : SaveWrite(w)

NextWorkers == SaveReadStep \/ SaveWriteStep

SpecWorkers == InitWorkers /\ [][NextWorkers]_vars

(***************************************************************************)
(* run.py, main: the wall-time loop (lines 186-234), by one worker whose   *)
(* study may hold trials of earlier runs.  A trial of the study is         *)
(* [state, dur]: dur is datetime_complete - datetime_start in seconds, and *)
(* a RUNNING trial has no datetime_complete.                               *)
(***************************************************************************)
Row(state, dur) == [state |-> state, dur |-> dur]
\* what the study holds when the run starts
StartStudies ==
  { <<>>, <<Row("RUNNING", 0)>>, <<Row("COMPLETE", 2)>>,
    <<Row("COMPLETE", 2), Row("RUNNING", 0)>> }
\* what the training routine returns in the loop
LoopResultsDicts ==
  { <<>>, [k \in {"m1"} |-> 1], [k \in {"m1", "m2"} |-> IF k = "m1" THEN 1 ELSE 3] }
RaiseKinds == {"KeyboardInterrupt", "Exception"}

\* echo.src.reporting.successful_trials: the trials that completed
SuccessfulTrials(st) ==
  Cardinality({ i \in 1..Len(st) : st[i].state = "COMPLETE" })

HasCompletion(row) == row.state # "RUNNING"

\* df["run_time"][completed_runs]: the run times of the trials that have a
\* datetime_complete, in the order of the study
RunTimes(st) ==
  LET F[k \in 0..Len(st)] ==
        IF k = 0 THEN <<>>
        ELSE IF HasCompletion(st[k]) THEN Append(F[k - 1], st[k].dur) ELSE F[k - 1]
  IN F[Len(st)]

TimeLeft == wallLimit - now

InitLoop ==
  /\ metric = [single |-> TRUE, names |-> <<"m1">>]
  /\ nodeId = [w \in Workers |-> NoNode]
  /\ results = [w \in Workers |-> EmptyResults]
  /\ pending = [w \in Workers |-> NoPending]
  /\ files = <<>>
  /\ call = NoCall
  /\ outcome = NoOutcome
  /\ saves = 0
  /\ pc = "call"
  /\ wallLimit \in {MaxWall - 2, MaxWall}
  /\ now \in {0, wallLimit}
  /\ nTrials \in 1..MaxRequired
  /\ study \in StartStudies
  /\ estimate = Num(wallLimit - now, 1)
  /\ request = NoRequest
  /\ lastCheck = NoCheck
  /\ stop = "none"
  /\ uncaught = FALSE
  /\ CfgIdle

\* the while condition is false
LoopExit ==
  /\ pc = "call"
  /\ ~(SuccessfulTrials(study) < nTrials)
  /\ pc' = "done"
  /\ stop' = "count"
  /\ UNCHANGED <<ledgerVars, now, wallLimit, nTrials, study, estimate, request,
                 lastCheck, uncaught, cfgVars>>

\* study.optimize(objective, n_trials=1, timeout=estimated_run_time) is called
Requested ==
  /\ pc = "call"
  /\ SuccessfulTrials(study) < nTrials
  /\ request' = [n |-> request.n + 1, n_trials |-> 1, timeout |-> estimate,
                 remaining |-> TimeLeft]
  /\ UNCHANGED <<wallLimit, nTrials, estimate, lastCheck, cfgVars>>

\* except KeyboardInterrupt: break / except Exception: break
Caught(kind) == kind \in {"KeyboardInterrupt", "Exception"}
\* the except clause as its commented-out line has it
OnRaiseContinue(kind) == IF kind = "Exception" THEN "continue" ELSE "break"

\* what the except clauses do with the loop
OnRaise(kind) == "break"

Raised(kind) ==
  /\ uncaught' = ~Caught(kind)
  /\ IF Caught(kind) /\ OnRaise(kind) # "break"
     THEN pc' = "call" /\ stop' = "none"
     ELSE pc' = "done" /\ stop' = kind

Returned ==
  /\ pc' = "check"
  /\ UNCHANGED <<stop, uncaught>>

\* optimize finds its timeout expired and runs no trial
TrialNotRun ==
  /\ Requested
  /\ Expired(estimate)
  /\ Returned
  /\ UNCHANGED <<ledgerVars, now, study>>

\* the trial runs d seconds, the training routine returns rd and save is called
TrialSaves(d, rd) ==
  LET trial == [number |-> Len(study), x |-> 0, prune |-> FALSE]
      p == Prepare(results["w1"], files, ResultsFn(nodeId["w1"]), metric, trial, rd)
  IN /\ Requested
     /\ ~Expired(estimate)
     /\ now + d <= MaxClock
     /\ now' = now + d
     /\ saves' = saves + 1
     /\ call' = [worker |-> "w1", trial |-> trial, rd |-> rd]
     /\ results' = [results EXCEPT !["w1"] = p.results]
     /\ files' = IF p.kind = "ok"
                 THEN WriteFile(files, ResultsFn(nodeId["w1"]), p.df)
                 ELSE files
     /\ outcome' = [kind |-> p.kind, ret |-> p.ret]
     /\ IF p.kind = "ok"
        THEN /\ study' = Append(study, Row("COMPLETE", d))
             /\ Returned
        ELSE /\ study' = Append(study, Row("FAIL", d))
             /\ Raised("Exception")
     /\ UNCHANGED <<metric, nodeId, pending>>

\* the training routine raises TrialPruned, which optimize takes as a pruned trial
TrialPruned(d) ==
  /\ Requested
  /\ ~Expired(estimate)
  /\ now + d <= MaxClock
  /\ now' = now + d
  /\ study' = Append(study, Row("PRUNED", d))
  /\ Returned
  /\ UNCHANGED ledgerVars

\* the training routine raises, or the interrupt signal arrives in the trial
TrialRaises(d, kind) ==
  /\ Requested
  /\ ~Expired(estimate)
  /\ now + d <= MaxClock
  /\ now' = now + d
  /\ \E state \in IF kind = "Exception" THEN {"FAIL"} ELSE {"FAIL", "RUNNING"} :
       study' = Append(study, Row(state, IF state = "RUNNING" THEN 0 ELSE d))
  /\ Raised(kind)
  /\ UNCHANGED ledgerVars

\* the estimate taken to be all of the time left
FewTrialsAllTimeLeft(timeLeft) == Num(timeLeft, 1)

\* estimated_run_time = 0.95 * time_left
FewTrialsEstimate(timeLeft) == Num(95 * timeLeft, 100)

\* an estimate that is never a number
StatsEstimateNaN(durs) == NaN

\* average_run_time + 2 * sigma_run_time: NaN unless two run times exist
StatsEstimate(durs) == IF Len(durs) >= 2 THEN MeanPlus2Std(durs) ELSE NaN

\* df.shape[0] > 1
StatsBranch(st) == Len(st) > 1

\* "Early stopping if too close to the wall time"
BudgetCheck ==
  /\ pc = "check"
  /\ lastCheck' = [n |-> request.n, rows |-> Len(study), durs |-> RunTimes(study),
                   timeLeft |-> TimeLeft]
  /\ IF StatsBranch(study)
     THEN /\ estimate' = StatsEstimate(RunTimes(study))
          /\ IF Less(TimeLeft, StatsEstimate(RunTimes(study)))
             THEN pc' = "done" /\ stop' = "budget"
             ELSE pc' = "call" /\ stop' = "none"
     ELSE IF TimeLeft * 2 < wallLimit
          THEN /\ pc' = "done" /\ stop' = "budget"
               /\ estimate' = estimate
          ELSE /\ pc' = "call" /\ stop' = "none"
               /\ estimate' = FewTrialsEstimate(TimeLeft)
  /\ UNCHANGED <<ledgerVars, now, wallLimit, nTrials, study, request, uncaught,
                 cfgVars>>

TrialSavesStep ==
  \E d \in 1..MaxDur, rd \in LoopResultsDicts : TrialSaves(d, rd)
TrialPrunedStep == \E d \in 1..MaxDur : TrialPruned(d)
TrialRaisesStep == \E d \in 1..MaxDur, kind \in RaiseKinds : TrialRaises(d, kind)

NextLoop ==
  \/ LoopExit
  \/ TrialNotRun
  \/ TrialSavesStep
  \/ TrialPrunedStep
  \/ TrialRaisesStep
  \/ BudgetCheck

SpecLoop == InitLoop /\ [][NextLoop]_vars

\* main is one sequential process: a call of optimize returns (or raises) and
\* the statement after it is executed, so a step that can be taken is taken
SpecLoopFair == InitLoop /\ [][NextLoop]_vars /\ WF_vars(NextLoop)

(***************************************************************************)
(* BaseObjective.update_config: the path updates of a configuration tree,  *)
(* and the reading of the updated tree.  The tree starts empty.            *)
(***************************************************************************)
InitConfig ==
  /\ metric = [single |-> TRUE, names |-> <<"m1">>]
  /\ nodeId = [w \in Workers |-> NoNode]
  /\ results = [w \in Workers |-> EmptyResults]
  /\ pending = [w \in Workers |-> NoPending]
  /\ files = <<>>
  /\ call = NoCall
  /\ outcome = NoOutcome
  /\ saves = 0
  /\ LoopIdle
  /\ CfgIdle

\* recursive_update(named_parameter.split(":"), conf, value)
ConfigUpdate(path, value) ==
  /\ updates < MaxUpdates
  /\ tree' = RecursiveUpdate(path, tree, value)
  /\ updates' = updates + 1
  /\ lastUpdate' = [path |-> path, value |-> value]
  /\ UNCHANGED <<flat, flatAt, ledgerVars, loopVars>>

\* for (k, v) in recursive_config_reader(conf)
ConfigRead ==
  /\ flatAt # updates
  /\ flat' = RecursiveConfigReader(tree, <<>>)
  /\ flatAt' = updates
  /\ UNCHANGED <<tree, updates, lastUpdate, ledgerVars, loopVars>>

ConfigUpdateStep == \E path \in Paths, value \in ConfigValues : ConfigUpdate(path, value)

NextConfig == ConfigUpdateStep \/ ConfigRead

SpecConfig == InitConfig /\ [][NextConfig]_vars

(***************************************************************************)
(* Claims about the ledger, checked under Spec.                            *)
(***************************************************************************)
\* the file of worker w1, and the part of its lines that make up a ledger row
FileOf(w) == ResultsFn(nodeId[w])
LinesOf(w) == IF FileOf(w) \in DOMAIN files THEN files[FileOf(w)].lines ELSE <<>>
RequiredMetrics(m) == Range(m.names)

\* C1: when a metric the study requires is absent from the results mapping,
\* save fails with the missing-metric error and changes neither the ledger in
\* memory nor the ledger file.
C1_MissingMetricChangesNothing ==
  [][ (saves' # saves /\ ~(RequiredMetrics(metric) \subseteq DOMAIN call'.rd))
        => /\ outcome'.kind = "AssertionError"
           /\ results' = results
           /\ files' = files ]_vars

\* a call failed on a missing metric although rows were already in memory and on disk
C1_Witness ==
  /\ outcome.kind = "AssertionError"
  /\ results["w1"] # EmptyResults
  /\ Len(LinesOf("w1")) > 0

\* C2: after a successful save of a trial number, the row of that trial number in
\* the ledger holds the metric values of that (the newest) write.
C2_NewerWriteWins ==
  outcome.kind = "ok" =>
    \A i \in 1..Len(LinesOf(call.worker)) :
      LinesOf(call.worker)[i]["trial"] = call.trial.number
        => \A k \in DOMAIN call.rd : LinesOf(call.worker)[i][k] = call.rd[k]

\* C3: every ledger file holds each trial number once, in ascending order.
C3_LedgerSortedUnique ==
  \A f \in DOMAIN files :
    \A i, j \in 1..Len(files[f].lines) :
      i < j => files[f].lines[i]["trial"] < files[f].lines[j]["trial"]

\* a file of two rows written from a memory that holds them in descending order
C3_Witness ==
  /\ outcome.kind = "ok"
  /\ Len(LinesOf("w1")) >= 2
  /\ results["w1"]["trial"] = <<2, 1>>

\* C8: a successful save returns the current trial's value of the study metric,
\* or, for a list of metrics, the list of the current trial's values in the
\* order of the metric list.
C8_ReturnsCurrentValues ==
  outcome.kind = "ok" =>
    outcome.ret =
      IF metric.single
      THEN PyNum(call.rd[metric.names[1]])
      ELSE PyList([i \in 1..Len(metric.names) |-> PyNum(call.rd[metric.names[i]])])

\* the fields of a ledger row: every column of the file but the index column
RowFields(line) == [c \in DOMAIN line \ {IndexCol} |-> line[c]]
\* the trial numbers the worker of process w has saved since it started
SavedInMemory(w) == Range(Get(results[w], "trial"))

\* the lines of the file named fn in the directory fs
LinesIn(fs, fn) == IF fn \in DOMAIN fs THEN fs[fn].lines ELSE <<>>

\* C11: a successful save of a trial number the worker has not saved before
\* leaves every field (parameters, metrics, pruned flag) of the ledger rows of
\* the other trials as it was.
C11_EarlierRowsKept ==
  [][ \A w \in Workers :
        (/\ saves' # saves
         /\ outcome'.kind = "ok"
         /\ call'.worker = w
         /\ call'.trial.number \notin SavedInMemory(w))
          => \A i \in 1..Len(LinesIn(files, FileOf(w))) :
               LinesIn(files, FileOf(w))[i]["trial"] # call'.trial.number
                 => \E j \in 1..Len(LinesIn(files', FileOf(w))) :
                      RowFields(LinesIn(files', FileOf(w))[j]) =
                        RowFields(LinesIn(files, FileOf(w))[i]) ]_vars

(***************************************************************************)
(* Claims about concurrent workers, checked under SpecWorkers.             *)
(***************************************************************************)
TrialsIn(file) == { file.lines[i]["trial"] : i \in 1..Len(file.lines) }

\* C9: no two workers write the same ledger file, so that a row one worker has
\* written to a file is never lost from it by the save of another worker.
C9_NoRowLost ==
  [][ \A f \in DOMAIN files : TrialsIn(files[f]) \subseteq TrialsIn(files'[f]) ]_vars

(***************************************************************************)
(* Claims about the wall-time loop, checked under SpecLoop.                *)
(***************************************************************************)
\* the early-stopping block has just been passed for the last trial call
AfterCheck ==
  /\ lastCheck.n > 0
  /\ lastCheck.n = request.n
  /\ pc \in {"call", "done"}
  /\ stop \in {"none", "budget"}

\* the value of the float e is the fraction n/d
IsFraction(e, n, d) == e.t = "num" /\ e.num * d = n * e.den

\* C4: after a trial call returned with fewer than two completed trials in the
\* study, the loop stops if the remaining time is below half of the wall limit,
\* and otherwise goes on with the estimate 0.95 * remaining.
C4_FewCompletedRule ==
  (AfterCheck /\ Len(lastCheck.durs) < 2) =>
    IF 2 * lastCheck.timeLeft < wallLimit
    THEN pc = "done" /\ stop = "budget"
    ELSE pc = "call" /\ IsFraction(estimate, 95 * lastCheck.timeLeft, 100)

\* C5: after a trial call returned with two or more completion timestamps in the
\* study, the estimate is mean + 2 * stddev of the completed durations, and the
\* loop stops whenever the remaining time is below that estimate, both taken in
\* one time unit.
C5_StopsBelowEstimate ==
  (AfterCheck /\ Len(lastCheck.durs) >= 2) =>
    /\ estimate = MeanPlus2Std(lastCheck.durs)
    /\ LtMeanPlus2Std(lastCheck.timeLeft, lastCheck.durs)
         => (pc = "done" /\ stop = "budget")

\* C6 as stated: every request asks for one trial, with the remaining wall time
\* as its timeout.
C6_TimeoutIsRemaining ==
  request.n > 0 =>
    /\ request.n_trials = 1
    /\ IsFraction(request.timeout, request.remaining, 1)

\* C6 as amended: every request asks for one trial; the timeout of the first
\* request is the remaining wall time at loop entry, and the timeout of a later
\* request is the estimate of the budget check before it: 0.95 * remaining with
\* fewer than two trials in the study, else mean + 2 * stddev of the completed
\* run times in hours (NaN when there are fewer than two of them).
C6_TimeoutIsEstimate ==
  (request.n > 0 /\ lastCheck.n = request.n - 1) =>
    /\ request.n_trials = 1
    /\ IF request.n = 1
       THEN IsFraction(request.timeout, request.remaining, 1)
       ELSE IF lastCheck.rows > 1
       THEN request.timeout =
              IF Len(lastCheck.durs) >= 2 THEN MeanPlus2Std(lastCheck.durs) ELSE NaN
       ELSE IsFraction(request.timeout, 95 * lastCheck.timeLeft, 100)

\* a request made after a check that took the fewer-than-two-trials branch
C6_Witness ==
  /\ request.n = 2
  /\ lastCheck.n = 1
  /\ lastCheck.rows = 1
  /\ pc = "check"

\* C7: when a trial call raises, the loop ends there: the error does not leave
\* the loop, the ledger files stay as they were, and no trial is requested after
\* the loop has ended.
C7_RaiseEndsLoop ==
  [][ /\ (request'.n # request.n /\ pc' # "check")
          => (pc' = "done" /\ ~uncaught' /\ files' = files)
      /\ pc = "done" => (pc' = "done" /\ request' = request) ]_vars

\* a trial raised after an earlier trial of the run had written its row
C7_Witness ==
  /\ pc = "done"
  /\ stop \in RaiseKinds
  /\ Len(LinesOf("w1")) >= 1
  /\ request.n >= 2

\* the ways the loop ends: the while condition, a break of the early-stopping
\* block, a break of an except clause
StopReasons == {"count", "budget"} \cup RaiseKinds

\* C12: when every trial call returns or raises and the statements of the loop
\* go on being executed, the loop ends, whether or not any trial completes:
\* by the trial count, by a break of the early-stopping block, or by a raise.
C12_LoopTerminates == <>(pc = "done" /\ stop \in StopReasons)

\* the loop was ended by the early-stopping block after several trial calls,
\* none of which (and no earlier trial of the study) completed successfully
C12_Witness ==
  /\ pc = "done"
  /\ stop = "budget"
  /\ request.n >= 3
  /\ SuccessfulTrials(study) = 0

\* the remaining wall time measured before the last request: at the budget
\* check that preceded it, or at loop entry for the first request
RemainingBefore == IF request.n = 1 THEN request.remaining ELSE lastCheck.timeLeft

\* the float e is a number and e <= x
AtMost(e, x) == e.t # "nan" /\ ~Less(x, e)

\* C13: the timeout of every request is a number that does not exceed the
\* remaining wall time measured before the request.
C13_TimeoutWithinRemaining ==
  (request.n > 0 /\ lastCheck.n = request.n - 1) =>
    AtMost(request.timeout, RemainingBefore)

(***************************************************************************)
(* Claims about the configuration tree, checked under SpecConfig.          *)
(***************************************************************************)
\* C10: an empty tree updated with a non-empty path P and a value V flattens to
\* exactly one pair, whose path is P and whose value is V.
C10_UpdateThenFlatten ==
  (updates = 1 /\ flatAt = 1) =>
    /\ Len(flat) = 1
    /\ flat[1].path = lastUpdate.path
    /\ flat[1].value = lastUpdate.value

\* the empty tree was updated at a path of three segments, two of them the same
\* key, and then flattened
C10_Witness ==
  /\ updates = 1
  /\ flatAt = 1
  /\ lastUpdate.path = <<"a", "a", "b">>
  /\ lastUpdate.value = 1

====
